---------------------------- MODULE Spec2Model ----------------------------
(***************************************************************************)
(* Adaptive RSS/Atom polling service: the rate estimator                   *)
(* (computeNextFetch), the feed processor (processFeed), the scheduler     *)
(* loop (run / tick / getDueFeeds / getNextWakeMs) and the two API routes  *)
(* that write the store (POST /feeds, DELETE /feeds).                      *)
(*                                                                         *)
(* Numbers.  Instants are integer milliseconds, as Date.getTime() gives    *)
(* them.  Rates and hour counts are exact rationals [n, d] in lowest       *)
(* terms (d > 0; 1/0 stands for +Infinity); IEEE rounding of the doubles   *)
(* is not modelled, the truncation of a Date to whole milliseconds is.     *)
(* A JavaScript value that may be null or undefined is a record            *)
(* [k, v] with k in {"num", "date", "null", "undef", "invalid"}.           *)
(***************************************************************************)
EXTENDS Integers, Sequences, FiniteSets, TLC

VARIABLES
    \* ---- estimator harness (computeNextFetch as a pure function) ----
    estTs,      \* publishedTimestamps of the first call
    estTs2,     \* publishedTimestamps of the second call (same prior, same now)
    estPrior,   \* currentRatePerHour
    estNow,     \* the instant `new Date()` returns inside the call
    estOut,     \* result of the first call  (k = "none" before the call)
    estOut2,    \* result of the second call (k = "none" before the call)
    \* ---- the harness of the pure function bestImage ----
    imgCandidates,  \* candidates: the list of { url, width, height }
    imgOut,         \* result of the call (k = "none" before the call)
    \* ---- the running system ----
    now,        \* the clock: what new Date() / Date.now() / SQL now() return
    feeds,      \* table "feed": feedUrl -> row
    items,      \* table "item": url -> row
    cache,      \* images.ts cache: the image URLs that have a data URI cached
    inv,        \* the processFeed invocations: slot -> activation record
    sched,      \* the scheduler loop run(): position, due list, batch index, wake instant
    spent,      \* environment events so far: feeds the remote answered with,
                \* failed downloads, throws of the store, API requests
    prev,       \* the last POST /feeds answered (kept by the sequential driver only)
    polled      \* history: per feed URL the instant the scheduler last passed it
                \* to processFeed, and the time since the pass before that

imgVars == <<imgCandidates, imgOut>>
estVars == <<estTs, estTs2, estPrior, estNow, estOut, estOut2, imgVars>>
sysVars == <<now, feeds, items, cache, inv, sched, spent, prev, polled>>
vars == <<estTs, estTs2, estPrior, estNow, estOut, estOut2, imgCandidates, imgOut,
          now, feeds, items, cache, inv, sched, spent, prev, polled>>

-----------------------------------------------------------------------------
(* Exact rationals *)

RECURSIVE Gcd(_, _)
Gcd(a, b) == IF b = 0 THEN a ELSE Gcd(b, a % b)

Abs(x) == IF x < 0 THEN -x ELSE x

\* n/d in lowest terms with d > 0 (d = 0 only for +Infinity = 1/0)
Rat(n, d) ==
    IF d = 0 THEN [n |-> 1, d |-> 0]
    ELSE LET g == Gcd(Abs(n), Abs(d))
             s == IF d < 0 THEN -1 ELSE 1
         IN  [n |-> s * (n \div g), d |-> s * (d \div g)]

RatAdd(a, b) ==
    LET g == Gcd(a.d, b.d)
    IN  Rat(a.n * (b.d \div g) + b.n * (a.d \div g), (a.d \div g) * b.d)
\* the product, cancelling across before multiplying
RatMul(a, b) ==
    LET g1 == Gcd(Abs(a.n), b.d)
        g2 == Gcd(Abs(b.n), a.d)
    IN  Rat((a.n \div g1) * (b.n \div g2), (a.d \div g2) * (b.d \div g1))
\* 1 / x as JavaScript divides: 1 / 0 is +Infinity
RatInv(a) == IF a.n = 0 THEN [n |-> 1, d |-> 0]
             ELSE IF a.n > 0 THEN [n |-> a.d, d |-> a.n]
             ELSE [n |-> -a.d, d |-> -a.n]

\* a/b < c/d for a, c >= 0 and b, d > 0, by the integer parts and then the
\* inverted remainders (no product is formed)
RECURSIVE LtPos(_, _, _, _)
LtPos(a, b, c, d) ==
    IF (a \div b) # (c \div d) THEN (a \div b) < (c \div d)
    ELSE IF c % d = 0 THEN FALSE
    ELSE IF a % b = 0 THEN TRUE
    ELSE LtPos(d, c % d, b, a % b)

RatLt(a, b) ==
    IF a.d = 0 THEN FALSE
    ELSE IF b.d = 0 THEN TRUE
    ELSE IF a.n < 0 /\ b.n >= 0 THEN TRUE
    ELSE IF a.n >= 0 /\ b.n < 0 THEN FALSE
    ELSE IF a.n >= 0 THEN LtPos(a.n, a.d, b.n, b.d)
    ELSE LtPos(-b.n, b.d, -a.n, a.d)
RatLe(a, b) == ~RatLt(b, a)
RatMin(a, b) == IF RatLe(a, b) THEN a ELSE b
RatMax(a, b) == IF RatLe(a, b) THEN b ELSE a
RatPos(a) == a.n > 0

\* x + y for 0 <= x, y < c as [carry, rest] with x + y = carry * c + rest
AddMod(x, y, c) ==
    IF x >= c - y THEN [q |-> 1, r |-> x - (c - y)] ELSE [q |-> 0, r |-> x + y]

\* floor(a * b / c) and the remainder, for a, b >= 0 and c > 0, without
\* forming the product a * b
RECURSIVE MulDiv(_, _, _)
MulDiv(a, b, c) ==
    IF a = 0 THEN [q |-> 0, r |-> 0]
    ELSE LET h == MulDiv(a \div 2, b, c)
             dbl == AddMod(h.r, h.r, c)
             odd == AddMod(dbl.r, (a % 2) * (b % c), c)
         IN  [q |-> 2 * h.q + dbl.q + (a % 2) * (b \div c) + odd.q, r |-> odd.r]

-----------------------------------------------------------------------------
(* JavaScript values *)

Zero == [n |-> 0, d |-> 1]
Num(r) == [k |-> "num", v |-> r]
NullRate == [k |-> "null", v |-> Zero]
UndefRate == [k |-> "undef", v |-> Zero]
DateOf(t) == [k |-> "date", v |-> t]
NullDate == [k |-> "null", v |-> 0]
UndefDate == [k |-> "undef", v |-> 0]
InvalidDate == [k |-> "invalid", v |-> 0]

\* x ?? null
OrNull(x) == IF x.k = "undef" THEN [x EXCEPT !.k = "null"] ELSE x


-----------------------------------------------------------------------------
(* Sequences *)

RECURSIVE Rep(_, _)
Rep(x, k) == IF k <= 0 THEN <<>> ELSE <<x>> \o Rep(x, k - 1)

RECURSIVE SumSeq(_)
SumSeq(s) == IF s = <<>> THEN 0 ELSE Head(s) + SumSeq(Tail(s))

RECURSIVE InsertAsc(_, _)
InsertAsc(x, s) ==
    IF s = <<>> THEN <<x>>
    ELSE IF x < Head(s) THEN <<x>> \o s
    ELSE <<Head(s)>> \o InsertAsc(x, Tail(s))

\* Array.prototype.sort((a, b) => a - b) on instants
RECURSIVE SortAsc(_)
SortAsc(s) == IF s = <<>> THEN <<>> ELSE InsertAsc(Head(s), SortAsc(Tail(s)))

\* Array.prototype.slice(-k)
SliceLast(s, k) == IF Len(s) <= k THEN s ELSE SubSeq(s, Len(s) - k + 1, Len(s))

SeqsUpTo(S, k) == UNION {[1..m -> S] : m \in 0..k}

-----------------------------------------------------------------------------
(* scheduler.ts: the rate estimator *)

MS_PER_HOUR == 3600000
LEAD_FACTOR == Rat(3, 5)
ALPHA == Rat(3, 10)
MIN_INTERVAL_HOURS == Rat(1, 4)
MAX_INTERVAL_HOURS == Rat(24, 1)
DEFAULT_INTERVAL_HOURS == Rat(1, 1)
SAMPLE_SIZE == 20

\* Math.max(min, Math.min(max, value))
clampUpperOnly(value, min, max) == RatMin(max, value)
clamp(value, min, max) == RatMax(min, RatMin(max, value))

\* new Date(date.getTime() + hours * 3_600_000): the Date constructor cuts
\* the sum to an integral number of milliseconds, towards zero
addHours(date, hours) ==
    LET x == MulDiv(Abs(hours.n), MS_PER_HOUR, hours.d)
    IN  IF hours.n >= 0
        THEN IF date + x.q >= 0 \/ x.r = 0 THEN date + x.q ELSE date + x.q + 1
        ELSE IF date - x.q <= 0 \/ x.r = 0 THEN date - x.q ELSE date - x.q - 1

\* the filter without the sort: the valid instants in the order given
validUnsorted(publishedTimestamps) ==
    LET kept == SelectSeq(publishedTimestamps, LAMBDA d : d.k = "date")
    IN  [i \in 1..Len(kept) |-> kept[i].v]

\* .filter(d => d instanceof Date && !isNaN(d.getTime())).sort(ascending),
\* as the instants of the dates kept
validDates(publishedTimestamps) ==
    LET kept == SelectSeq(publishedTimestamps, LAMBDA d : d.k = "date")
    IN  SortAsc([i \in 1..Len(kept) |-> kept[i].v])

sampleAll(valid) == valid
sampleOf(valid) == SliceLast(valid, SAMPLE_SIZE)

\* every gap between consecutive sample entries, the zero ones too
gapsWithZero(sample) == [i \in 1..(Len(sample) - 1) |-> sample[i + 1] - sample[i]]

\* the gaps between consecutive sample entries that are > 0, in milliseconds
\* (the code keeps them in hours: each is this number / 3_600_000)
gapsOf(sample) ==
    SelectSeq([i \in 1..(Len(sample) - 1) |-> sample[i + 1] - sample[i]],
              LAMBDA g : g > 0)

\* gaps.length / sumGaps, sumGaps in hours
observedInverted(gaps) == Rat(SumSeq(gaps), Len(gaps) * MS_PER_HOUR)
observedRateOf(gaps) == Rat(Len(gaps) * MS_PER_HOUR, SumSeq(gaps))

\* currentRatePerHour != null ? ALPHA * obs + (1 - ALPHA) * current : obs
smoothedMinus(observedRate, currentRatePerHour) ==
    IF currentRatePerHour.k = "num"
    THEN RatAdd(RatMul(ALPHA, observedRate),
                RatMul(Rat(-7, 10), currentRatePerHour.v))
    ELSE observedRate
smoothedRateOf(observedRate, currentRatePerHour) ==
    IF currentRatePerHour.k = "num"
    THEN RatAdd(RatMul(ALPHA, observedRate),
                RatMul(RatAdd(Rat(1, 1), Rat(-ALPHA.n, ALPHA.d)), currentRatePerHour.v))
    ELSE observedRate

\* clamp((1 / smoothedRate) * LEAD_FACTOR, MIN_INTERVAL_HOURS, MAX_INTERVAL_HOURS)
pollIntervalHoursOf(smoothedRate) ==
    clamp(RatMul(RatInv(smoothedRate), LEAD_FACTOR),
          MIN_INTERVAL_HOURS, MAX_INTERVAL_HOURS)

\* clock is the value of the call's own `new Date()` (the code's `now`)
computeNextFetch(publishedTimestamps, currentRatePerHour, clock) ==
    LET valid == validDates(publishedTimestamps)
        sample == sampleOf(valid)
        gaps == gapsOf(sample)
        fallback == [k |-> "res",
                     nextFetchAt |-> addHours(clock, DEFAULT_INTERVAL_HOURS),
                     newRatePerHour |-> OrNull(currentRatePerHour)]
    IN  IF Len(valid) < 2 THEN fallback
        ELSE IF gaps = <<>> THEN fallback
        ELSE LET smoothedRate == smoothedRateOf(observedRateOf(gaps), currentRatePerHour)
             IN  [k |-> "res",
                  nextFetchAt |-> addHours(clock, pollIntervalHoursOf(smoothedRate)),
                  newRatePerHour |-> Num(smoothedRate)]

NoOut == [k |-> "none", nextFetchAt |-> 0, newRatePerHour |-> NullRate]

-----------------------------------------------------------------------------
(* Store, remote feeds and processFeed activation records *)

None == <<>>
Some(x) == <<x>>

\* nullIfEmpty: null for a null, empty or whitespace-only string
nullIfEmpty(val) == IF val = "" \/ val = " " THEN None ELSE Some(val)

\* the URL as requested (request.url rather than res.url)
ResolveNone(feedUrl) == feedUrl

\* res.url: the URL a fetch of feedUrl ends at after redirects ("a" is an
\* alias that redirects to "f")
Resolve(feedUrl) == IF feedUrl = "a" THEN "f" ELSE feedUrl

\* a parsed item: url ("" when the feed gives none), published (a Date or
\* undefined), image ("" when bestImage found none), and title, which stands
\* for title / description / content / author
ParsedItem(u, pub, img, t) == [url |-> u, published |-> pub, image |-> img, title |-> t]

\* what fetchAndParse can return for a feed: feedInfo.name (which stands for
\* name / homeUrl / image) and the parsed items
Docs ==
    { [name |-> "n1",
       items |-> << ParsedItem("x", DateOf(0), "", "t1"),
                    ParsedItem("y", DateOf(3600000), "i1", "t1") >>],
      [name |-> "n2",
       items |-> << ParsedItem("x", DateOf(0), "i1", "t2"),
                    ParsedItem("", DateOf(30000), "", "t2"),
                    ParsedItem("z", DateOf(60000), "", " ") >>],
      [name |-> " ",
       items |-> << ParsedItem("y", UndefDate, "", "t1") >>] }

NoDoc == [name |-> "", items |-> <<>>]

\* a row of table "feed" as processFeed writes it
FeedRow(doc, fetched, est) ==
    [ name |-> nullIfEmpty(doc.name),
      lastFetched |-> DateOf(fetched),
      nextFetchAt |-> DateOf(est.nextFetchAt),
      publishRatePerHour |-> est.newRatePerHour ]

\* a row that was never polled (all nullable columns null)
FreshRow ==
    [ name |-> None, lastFetched |-> NullDate, nextFetchAt |-> NullDate,
      publishRatePerHour |-> NullRate ]

\* a row of table "item" as processFeed writes it
ItemRow(item, finalUrl, image) ==
    [ feedUrl |-> finalUrl,
      title |-> nullIfEmpty(item.title),
      published |-> OrNull(item.published),
      image |-> image ]

CONCURRENCY == 5
TICK_MS == 60000

MaxEvents == 2    \* environment events in a run (see spent)
MaxSkew == 1      \* ms the clock can advance between two reads in one turn
MaxNow == 180000  \* the clock is not advanced past this instant

SchedSlots == 1..CONCURRENCY
\* POST /feeds requests are taken one at a time
ApiSlots == {CONCURRENCY + 1}
Slots == SchedSlots \cup ApiSlots

Idle ==
    [ pc |-> "idle", by |-> "none", url |-> "", finalUrl |-> "", doc |-> NoDoc,
      est |-> NoOut, fetched |-> 0, idx |-> 0, img |-> None, inserted |-> 0,
      upserted |-> FALSE, threw |-> FALSE, result |-> "none" ]

\* processFeed(feedUrl, db) up to its first await: fetch(feedUrl) is issued
Started(feedUrl, by) == [Idle EXCEPT !.pc = "fetch", !.by = by, !.url = feedUrl]

InFlight(p) == inv[p].pc \notin {"idle", "done"}

\* the rows an INSERT without a RETURNING clause hands back: result.length
\* (line 119) counts those, for a new row and for a conflict alike
ResultLength(rowInserted) == 0

\* processFeed settled: returned null, returned { inserted, finalUrl } or
\* rejected; its locals are gone
Return(rec, result) ==
    [rec EXCEPT !.pc = "done", !.result = result, !.idx = 0, !.img = None,
                !.est = NoOut, !.fetched = 0]

\* the item loop from position i up to its next await or to the return:
\* items without a URL are skipped; an item with an image URL that is cached
\* goes straight to its insert with the cached data URI
RECURSIVE NextItem(_, _)
NextItem(its, i) ==
    IF i > Len(its) THEN i
    ELSE IF its[i].url = "" THEN NextItem(its, i + 1)
    ELSE i

ItemLoop(rec, i, c) ==
    LET j == NextItem(rec.doc.items, i)
    IN  IF j > Len(rec.doc.items)
        THEN Return(rec, "ok")
        ELSE IF rec.doc.items[j].image = ""
        THEN [rec EXCEPT !.pc = "insert", !.idx = j, !.img = None]
        ELSE IF rec.doc.items[j].image \in c
        THEN [rec EXCEPT !.pc = "insert", !.idx = j, !.img = Some(rec.doc.items[j].image)]
        ELSE [rec EXCEPT !.pc = "image", !.idx = j, !.img = None]

-----------------------------------------------------------------------------
(* parser.ts: bestImage over the image candidates of an item *)

\* a candidate as rssImages / atomImages build it: width and height are what
\* parseNum made of the attributes (0 for a missing or non-numeric one)
Candidate(u, w, h) == [url |-> u, width |-> w, height |-> h]

\* score: w * h if (w && h), that is when neither is 0; else Math.max(w, h)
score(img) ==
    IF img.width # 0 /\ img.height # 0
    THEN img.width * img.height
    ELSE IF img.width >= img.height THEN img.width ELSE img.height

\* x put into s, which is sorted by descending score, behind every entry
\* whose score is not less: Array.prototype.sort is stable
RECURSIVE InsertByScore(_, _)
InsertByScore(x, s) ==
    IF s = <<>> THEN <<x>>
    ELSE IF score(Head(s)) >= score(x) THEN <<Head(s)>> \o InsertByScore(x, Tail(s))
    ELSE <<x>> \o s

\* candidates.slice().sort((a, b) => score(b) - score(a))
RECURSIVE SortByScore(_)
SortByScore(s) ==
    IF s = <<>> THEN <<>>
    ELSE InsertByScore(s[Len(s)], SortByScore(SubSeq(s, 1, Len(s) - 1)))

\* bestImage: null for no candidate, else the url of the first sorted one
bestImage(candidates) ==
    IF candidates = <<>> THEN None
    ELSE Some(SortByScore(candidates)[1].url)

-----------------------------------------------------------------------------
(* processor.ts: processFeed, one action per await *)

\* fetchAndParse returned a parsed feed; the select of the prior rate is issued
FetchOk(p) ==
    /\ inv[p].pc = "fetch"
    /\ spent < MaxEvents
    /\ \E doc \in Docs :
          inv' = [inv EXCEPT ![p] = [@ EXCEPT !.pc = "read",
                                              !.finalUrl = Resolve(inv[p].url),
                                              !.doc = doc]]
    /\ spent' = spent + 1
    /\ UNCHANGED <<estVars, now, feeds, items, cache, sched, prev, polled>>

\* fetchAndParse returned null (network error, non-2xx, parse exception):
\* processFeed returns null
FetchFailReschedule(p) ==
    /\ inv[p].pc = "fetch"
    /\ inv' = [inv EXCEPT ![p] = Return(@, "null")]
    /\ feeds' = [u \in DOMAIN feeds |->
                   IF u = inv[p].url
                   THEN [feeds[u] EXCEPT !.nextFetchAt = DateOf(addHours(now, DEFAULT_INTERVAL_HOURS))]
                   ELSE feeds[u]]
    /\ UNCHANGED <<estVars, now, items, cache, sched, spent, prev, polled>>
FetchFail(p) ==
    /\ inv[p].pc = "fetch"
    /\ inv' = [inv EXCEPT ![p] = Return(@, "null")]
    /\ UNCHANGED <<estVars, now, feeds, items, cache, sched, spent, prev, polled>>

\* the select answered: existing?.rate ?? null, then computeNextFetch (which
\* reads the clock) and the values of the upsert, whose lastFetched is a
\* second read of the clock; the upsert is issued
ReadRate(p) ==
    /\ inv[p].pc = "read"
    /\ LET existing == IF inv[p].finalUrl \in DOMAIN feeds
                       THEN feeds[inv[p].finalUrl].publishRatePerHour
                       ELSE UndefRate
           published == [i \in 1..Len(inv[p].doc.items) |->
                           OrNull(inv[p].doc.items[i].published)]
       IN  \E skew \in 0..MaxSkew :
              /\ inv' = [inv EXCEPT ![p] =
                           [@ EXCEPT !.pc = "upsert",
                                     !.est = computeNextFetch(published, OrNull(existing), now),
                                     !.fetched = now + skew]]
              /\ now' = now + skew
    /\ UNCHANGED <<estVars, feeds, items, cache, sched, spent, prev, polled>>

\* the select threw: processFeed rejects
ReadThrows(p) ==
    /\ spent < MaxEvents
    /\ inv[p].pc = "read"
    /\ inv' = [inv EXCEPT ![p] = Return(@, "rejected")]
    /\ spent' = spent + 1
    /\ UNCHANGED <<estVars, now, feeds, items, cache, sched, prev, polled>>

\* the upsert ran: insert, or on conflict update, of the row keyed finalUrl;
\* then the item loop runs to its next await
Upsert(p) ==
    /\ inv[p].pc = "upsert"
    /\ feeds' = [u \in DOMAIN feeds \cup {inv[p].finalUrl} |->
                   IF u = inv[p].finalUrl
                   THEN FeedRow(inv[p].doc, inv[p].fetched, inv[p].est)
                   ELSE feeds[u]]
    /\ inv' = [inv EXCEPT ![p] = ItemLoop([@ EXCEPT !.upserted = TRUE], 1, cache)]
    /\ UNCHANGED <<estVars, now, items, cache, sched, spent, prev, polled>>

\* the upsert threw: processFeed rejects
UpsertThrows(p) ==
    /\ spent < MaxEvents
    /\ inv[p].pc = "upsert"
    /\ inv' = [inv EXCEPT ![p] = Return(@, "rejected")]
    /\ spent' = spent + 1
    /\ UNCHANGED <<estVars, now, feeds, items, cache, sched, prev, polled>>

\* downloadImageAsBase64 built a data URI: it is cached and the insert issued
ImageOk(p) ==
    /\ inv[p].pc = "image"
    /\ cache' = cache \cup {inv[p].doc.items[inv[p].idx].image}
    /\ inv' = [inv EXCEPT ![p] =
                 [@ EXCEPT !.pc = "insert",
                           !.img = Some(inv[p].doc.items[inv[p].idx].image)]]
    /\ UNCHANGED <<estVars, now, feeds, items, sched, spent, prev, polled>>

\* downloadImageAsBase64 returned null and left an entry for the URL behind
ImageNullCaches(p) ==
    /\ spent < MaxEvents
    /\ inv[p].pc = "image"
    /\ cache' = cache \cup {inv[p].doc.items[inv[p].idx].image}
    /\ inv' = [inv EXCEPT ![p] = [@ EXCEPT !.pc = "insert", !.img = None]]
    /\ spent' = spent + 1
    /\ UNCHANGED <<estVars, now, feeds, items, sched, prev, polled>>

\* downloadImageAsBase64 returned null: the insert is issued without an image
ImageNull(p) ==
    /\ spent < MaxEvents
    /\ inv[p].pc = "image"
    /\ inv' = [inv EXCEPT ![p] = [@ EXCEPT !.pc = "insert", !.img = None]]
    /\ spent' = spent + 1
    /\ UNCHANGED <<estVars, now, feeds, items, cache, sched, prev, polled>>

\* the item insert ran (ON CONFLICT DO NOTHING; the foreign key item.feed_url
\* -> feed.feed_url is checked for a new row and its violation is the throw
\* the catch logs); then the item loop runs on
InsertItemNoFk(p) ==
    /\ inv[p].pc = "insert"
    /\ LET item == inv[p].doc.items[inv[p].idx]
           fresh == item.url \notin DOMAIN items
       IN  /\ items' = IF fresh
                       THEN [u \in DOMAIN items \cup {item.url} |->
                               IF u = item.url
                               THEN ItemRow(item, inv[p].finalUrl, inv[p].img)
                               ELSE items[u]]
                       ELSE items
           /\ inv' = [inv EXCEPT ![p] =
                        ItemLoop([@ EXCEPT !.inserted = @ + (IF ResultLength(fresh) > 0 THEN 1 ELSE 0)],
                                 inv[p].idx + 1, cache)]
    /\ UNCHANGED <<estVars, now, feeds, cache, sched, spent, prev, polled>>
InsertItemOverwrite(p) ==
    /\ inv[p].pc = "insert"
    /\ LET item == inv[p].doc.items[inv[p].idx]
           fresh == item.url \notin DOMAIN items
           fkOk == inv[p].finalUrl \in DOMAIN feeds
       IN  /\ items' = IF fkOk
                       THEN [u \in DOMAIN items \cup {item.url} |->
                               IF u = item.url
                               THEN ItemRow(item, inv[p].finalUrl, inv[p].img)
                               ELSE items[u]]
                       ELSE items
           /\ inv' = [inv EXCEPT ![p] =
                        ItemLoop([@ EXCEPT !.inserted = @ + (IF fkOk /\ ResultLength(fresh) > 0 THEN 1 ELSE 0),
                                           !.threw = @ \/ ~fkOk],
                                 inv[p].idx + 1, cache)]
    /\ UNCHANGED <<estVars, now, feeds, cache, sched, spent, prev, polled>>
InsertItem(p) ==
    /\ inv[p].pc = "insert"
    /\ LET item == inv[p].doc.items[inv[p].idx]
           fresh == item.url \notin DOMAIN items
           fkOk == inv[p].finalUrl \in DOMAIN feeds
       IN  /\ items' = IF fresh /\ fkOk
                       THEN [u \in DOMAIN items \cup {item.url} |->
                               IF u = item.url
                               THEN ItemRow(item, inv[p].finalUrl, inv[p].img)
                               ELSE items[u]]
                       ELSE items
           /\ inv' = [inv EXCEPT ![p] =
                        ItemLoop([@ EXCEPT !.inserted = @ + (IF (~fresh \/ fkOk) /\ ResultLength(fresh) > 0
                                                             THEN 1 ELSE 0),
                                           !.threw = @ \/ (fresh /\ ~fkOk)],
                                 inv[p].idx + 1, cache)]
    /\ UNCHANGED <<estVars, now, feeds, cache, sched, spent, prev, polled>>

\* the item insert threw with no try around it: processFeed rejects and the
\* remaining items are not looked at
InsertThrowsAborts(p) ==
    /\ spent < MaxEvents
    /\ inv[p].pc = "insert"
    /\ inv' = [inv EXCEPT ![p] = Return([@ EXCEPT !.threw = TRUE], "rejected")]
    /\ spent' = spent + 1
    /\ UNCHANGED <<estVars, now, feeds, items, cache, sched, prev, polled>>

\* the item insert threw for another reason (the store was unavailable): the
\* catch logs it and the loop runs on
InsertThrows(p) ==
    /\ spent < MaxEvents
    /\ inv[p].pc = "insert"
    /\ inv' = [inv EXCEPT ![p] = ItemLoop([@ EXCEPT !.threw = TRUE], inv[p].idx + 1, cache)]
    /\ spent' = spent + 1
    /\ UNCHANGED <<estVars, now, feeds, items, cache, sched, prev, polled>>

-----------------------------------------------------------------------------
(* scheduler.ts (fetcher): getDueFeeds, getNextWakeMs, tick, run *)

IsDue(row, t) == row.nextFetchAt.k = "null" \/ row.nextFetchAt.v <= t

\* ORDER BY next_fetch_at ASC: PostgreSQL puts NULLs last in ascending order
AscLe(a, b) == b.k = "null" \/ (a.k # "null" /\ a.v <= b.v)

\* the orders the query may return the rows of D in (ties in any order)
Ordered(fs, D) ==
    { s \in [1..Cardinality(D) -> D] :
        \A i, j \in 1..Cardinality(D) :
            i < j => s[i] # s[j] /\ AscLe(fs[s[i]].nextFetchAt, fs[s[j]].nextFetchAt) }

\* WHERE next_fetch_at IS NULL OR next_fetch_at <= now ORDER BY next_fetch_at
getDueFeedsNotNull(fs, t) ==
    Ordered(fs, {u \in DOMAIN fs : fs[u].nextFetchAt.k # "null" /\ fs[u].nextFetchAt.v <= t})
getDueFeeds(fs, t) == Ordered(fs, {u \in DOMAIN fs : IsDue(fs[u], t)})

SetMin(S) == CHOOSE x \in S : \A y \in S : x <= y

\* the earliest next_fetch_at > now() of the query, read at tq, as ms from
\* Date.now(), read at t when the query has answered, cut to [0, TICK_MS];
\* TICK_MS when there is none
getNextWakeUncapped(fs, tq, t) ==
    LET future == {fs[u].nextFetchAt.v :
                      u \in {w \in DOMAIN fs : fs[w].nextFetchAt.k # "null"
                                               /\ fs[w].nextFetchAt.v > tq}}
    IN  IF future = {} THEN TICK_MS
        ELSE LET msUntil == SetMin(future) - t
             IN  IF msUntil > 0 THEN msUntil ELSE 0
getNextWakeMs(fs, tq, t) ==
    LET future == {fs[u].nextFetchAt.v :
                      u \in {w \in DOMAIN fs : fs[w].nextFetchAt.k # "null"
                                               /\ fs[w].nextFetchAt.v > tq}}
    IN  IF future = {} THEN TICK_MS
        ELSE LET msUntil == SetMin(future) - t
                 capped == IF msUntil < TICK_MS THEN msUntil ELSE TICK_MS
             IN  IF capped > 0 THEN capped ELSE 0

\* batch = due.slice(i, i + CONCURRENCY); batch.map(f => processFeed(f.feedUrl, db)):
\* the activations of the batch take the scheduler's slots
Dispatch(due, i) ==
    [p \in Slots |->
        IF p \in SchedSlots
        THEN IF i + p <= Len(due) THEN Started(due[i + p], "sched") ELSE Idle
        ELSE inv[p]]

\* the history of the passes after the batch at i of due was dispatched
Passes(due, i) ==
    [u \in DOMAIN polled |->
        IF \E p \in SchedSlots : i + p <= Len(due) /\ due[i + p] = u
        THEN [at |-> now, gap |-> IF polled[u].at < 0 THEN -1 ELSE now - polled[u].at]
        ELSE polled[u]]

\* Promise.race-like: the batch counts as over when its first activation is
SettledFirst == ~InFlight(1)

\* Promise.allSettled(batch): every activation of the batch fulfilled or rejected
Settled == \A p \in SchedSlots : ~InFlight(p)

\* tick(): the due-feed query answered; nothing due returns, otherwise the
\* first batch is dispatched
Tick ==
    /\ sched.pc = "tick"
    /\ \E due \in getDueFeeds(feeds, now) :
          IF due = <<>>
          THEN /\ sched' = [sched EXCEPT !.pc = "wake"]
               /\ inv' = inv
               /\ polled' = polled
          ELSE /\ sched' = [sched EXCEPT !.pc = "await", !.due = due, !.i = 0]
               /\ inv' = Dispatch(due, 0)
               /\ polled' = Passes(due, 0)
    /\ UNCHANGED <<estVars, now, feeds, items, cache, spent, prev>>

\* the due-feed query threw: run() catches and logs the tick error
TickThrows ==
    /\ spent < MaxEvents
    /\ sched.pc = "tick"
    /\ sched' = [sched EXCEPT !.pc = "wake"]
    /\ spent' = spent + 1
    /\ UNCHANGED <<estVars, now, feeds, items, cache, inv, prev, polled>>

\* Promise.all(batch): a rejection among the batch rejects tick(), which
\* run() catches; no further batch is dispatched
BatchAborts ==
    /\ sched.pc = "await"
    /\ Settled
    /\ IF sched.i + CONCURRENCY < Len(sched.due)
          /\ \A p \in SchedSlots : inv[p].result # "rejected"
       THEN /\ sched' = [sched EXCEPT !.i = sched.i + CONCURRENCY]
            /\ inv' = Dispatch(sched.due, sched.i + CONCURRENCY)
            /\ polled' = Passes(sched.due, sched.i + CONCURRENCY)
       ELSE /\ sched' = [sched EXCEPT !.pc = "wake", !.due = <<>>, !.i = 0]
            /\ inv' = Dispatch(<<>>, 0)
            /\ polled' = polled
    /\ UNCHANGED <<estVars, now, feeds, items, cache, spent, prev>>

\* Promise.allSettled(batch) resolved: the next batch, or the tick returns
BatchSettled ==
    /\ sched.pc = "await"
    /\ Settled
    /\ IF sched.i + CONCURRENCY < Len(sched.due)
       THEN /\ sched' = [sched EXCEPT !.i = sched.i + CONCURRENCY]
            /\ inv' = Dispatch(sched.due, sched.i + CONCURRENCY)
            /\ polled' = Passes(sched.due, sched.i + CONCURRENCY)
       ELSE /\ sched' = [sched EXCEPT !.pc = "wake", !.due = <<>>, !.i = 0]
            /\ inv' = Dispatch(<<>>, 0)
            /\ polled' = polled
    /\ UNCHANGED <<estVars, now, feeds, items, cache, spent, prev>>

\* getNextWakeMs() answered: the query read now() up to MaxSkew ms before
\* Date.now() is read; Bun.sleep(sleepMs) is started
Wake ==
    /\ sched.pc = "wake"
    /\ \E skew \in 0..MaxSkew :
          sched' = [sched EXCEPT !.pc = "sleep",
                                 !.wakeAt = now + getNextWakeMs(feeds, now - skew, now)]
    /\ UNCHANGED <<estVars, now, feeds, items, cache, inv, spent, prev, polled>>

\* the query of getNextWakeMs() threw, outside the try of run(): run() rejects
\* and the loop is over
WakeThrows ==
    /\ spent < MaxEvents
    /\ sched.pc = "wake"
    /\ sched' = [sched EXCEPT !.pc = "dead"]
    /\ spent' = spent + 1
    /\ UNCHANGED <<estVars, now, feeds, items, cache, inv, prev, polled>>

\* Bun.sleep resolved: the loop begins another tick
SleepDone ==
    /\ sched.pc = "sleep"
    /\ now >= sched.wakeAt
    /\ sched' = [sched EXCEPT !.pc = "tick", !.wakeAt = 0]
    /\ UNCHANGED <<estVars, now, feeds, items, cache, inv, spent, prev, polled>>

-----------------------------------------------------------------------------
(* api/index.ts: the routes that write the store *)

RequestUrls == {"a", "f"}

\* the feed URLs of the model: "a" redirects to "f", the others to nothing
FeedUrls == RequestUrls \cup {"g", "h", "i", "j", "k"}

NoPolls == [u \in FeedUrls |-> [at |-> -1, gap |-> -1]]

\* POST /feeds?url=u: processFeed(u, db) is called and awaited
ApiPost(u) ==
    /\ spent < MaxEvents
    /\ \E p \in ApiSlots :
          /\ inv[p].pc = "idle"
          /\ inv' = [inv EXCEPT ![p] = Started(u, "api")]
    /\ spent' = spent + 1
    /\ UNCHANGED <<estVars, now, feeds, items, cache, sched, prev, polled>>

\* processFeed settled: the handler answers (400 for null, the feed row and
\* itemsInserted otherwise)
ApiRespond(p) ==
    /\ p \in ApiSlots
    /\ inv[p].pc = "done"
    /\ inv' = [inv EXCEPT ![p] = Idle]
    /\ UNCHANGED <<estVars, now, feeds, items, cache, sched, spent, prev, polled>>

\* DELETE /feeds?url=u: the row keyed u goes, and by ON DELETE CASCADE every
\* item row that references it
ApiDelete(u) ==
    /\ spent < MaxEvents
    /\ feeds' = [w \in DOMAIN feeds \ {u} |-> feeds[w]]
    /\ items' = [x \in {y \in DOMAIN items : items[y].feedUrl # u} |-> items[x]]
    /\ spent' = spent + 1
    /\ UNCHANGED <<estVars, now, inv, cache, sched, prev, polled>>

-----------------------------------------------------------------------------
(* Time *)

\* the clock moves on: to the instant the scheduler's sleep ends or to the
\* instant a feed becomes due
Instants ==
    (IF sched.pc = "sleep" THEN {sched.wakeAt} ELSE {})
    \cup {feeds[u].nextFetchAt.v : u \in {w \in DOMAIN feeds : feeds[w].nextFetchAt.k # "null"}}

Advance ==
    /\ \E t \in Instants :
          /\ t > now
          /\ t <= MaxNow
          /\ now' = t
    /\ UNCHANGED <<estVars, feeds, items, cache, inv, sched, spent, prev, polled>>

-----------------------------------------------------------------------------
(* The system *)

NoRows == [u \in {} |-> FreshRow]

\* a row polled an hour ago whose next fetch is due now
PolledRow ==
    [ name |-> Some("n1"), lastFetched |-> DateOf(-3600000), nextFetchAt |-> DateOf(0),
      publishRatePerHour |-> Num(Rat(1, 1)) ]

\* a row polled 14.5 min ago at the shortest interval: due in 30 s
SoonRow ==
    [ name |-> Some("n1"), lastFetched |-> DateOf(-870000), nextFetchAt |-> DateOf(30000),
      publishRatePerHour |-> Num(Rat(4, 1)) ]

\* the feed table at start: empty, or one row: a never-polled row for either
\* URL, or a row of "f" that is due or due soon
InitStores ==
    {NoRows} \cup {[u \in {w} |-> FreshRow] : w \in RequestUrls}
             \cup {[u \in {"f"} |-> r] : r \in {PolledRow, SoonRow}}

NoPrev ==
    [k |-> "none", url |-> "", doc |-> NoDoc, feeds |-> NoRows, items |-> NoRows,
     threw |-> FALSE, result |-> "none"]

ImgIdle == imgCandidates = <<>> /\ imgOut = [k |-> "none", v |-> None]

EstIdle ==
    /\ estTs = <<>> /\ estTs2 = <<>> /\ estPrior = NullRate /\ estNow = 0
    /\ estOut = NoOut /\ estOut2 = NoOut
    /\ ImgIdle

SysIdle ==
    /\ now = 0
    /\ feeds = NoRows
    /\ items = NoRows
    /\ cache = {}
    /\ inv = [p \in Slots |-> Idle]
    /\ sched = [pc |-> "tick", due |-> <<>>, i |-> 0, wakeAt |-> 0]
    /\ spent = 0
    /\ prev = NoPrev
    /\ polled = NoPolls

Init ==
    /\ EstIdle
    /\ now = 0
    /\ feeds \in InitStores
    /\ items = NoRows
    /\ cache = {}
    /\ inv = [p \in Slots |-> Idle]
    /\ sched = [pc |-> "tick", due |-> <<>>, i |-> 0, wakeAt |-> 0]
    /\ spent = 0
    /\ prev = NoPrev
    /\ polled = NoPolls

ProcessStep(p) ==
    \/ FetchOk(p) \/ FetchFail(p)
    \/ ReadRate(p) \/ ReadThrows(p)
    \/ Upsert(p) \/ UpsertThrows(p)
    \/ ImageOk(p) \/ ImageNull(p)
    \/ InsertItem(p) \/ InsertThrows(p)

Next ==
    \/ \E p \in Slots : ProcessStep(p)
    \/ Tick \/ TickThrows \/ BatchSettled \/ Wake \/ WakeThrows \/ SleepDone
    \/ \E u \in RequestUrls : ApiPost(u)
    \/ \E p \in ApiSlots : ApiRespond(p)
    \/ \E u \in RequestUrls : ApiDelete(u)
    \/ Advance

Spec == Init /\ [][Next]_vars

-----------------------------------------------------------------------------
(* One client of POST /feeds and no other writer: the fetcher is not running, *)
(* the client posts a URL and, once answered, posts the same URL again        *)

\* POST /feeds?url=u, the second time with the URL of the first
SeqPost(u) ==
    /\ prev.k \in {"none", "first"}
    /\ prev.k = "first" => u = prev.url
    /\ \E p \in ApiSlots :
          /\ inv[p].pc = "idle"
          /\ inv' = [inv EXCEPT ![p] = Started(u, "api")]
    /\ UNCHANGED <<estVars, now, feeds, items, cache, sched, spent, prev, polled>>

\* fetchAndParse of the second request returned the response of the first
SeqFetchSame(p) ==
    /\ inv[p].pc = "fetch"
    /\ prev.k = "first"
    /\ prev.result = "ok"
    /\ inv' = [inv EXCEPT ![p] = [@ EXCEPT !.pc = "read",
                                          !.finalUrl = Resolve(inv[p].url),
                                          !.doc = prev.doc]]
    /\ UNCHANGED <<estVars, now, feeds, items, cache, sched, spent, prev, polled>>

\* the handler answers; prev keeps what the first run returned and the feed
\* and item tables it left
SeqRespond(p) ==
    /\ inv[p].pc = "done"
    /\ prev.k \in {"none", "first"}
    /\ prev' = IF prev.k = "none"
               THEN [k |-> "first", url |-> inv[p].url, doc |-> inv[p].doc,
                     feeds |-> feeds, items |-> items, threw |-> inv[p].threw,
                     result |-> inv[p].result]
               ELSE [prev EXCEPT !.k = "both"]
    /\ inv' = [inv EXCEPT ![p] = Idle]
    /\ UNCHANGED <<estVars, now, feeds, items, cache, sched, spent, polled>>

SeqNext ==
    \/ \E u \in RequestUrls : SeqPost(u)
    \/ \E p \in ApiSlots : ProcessStep(p)
    \/ \E p \in ApiSlots : SeqFetchSame(p)
    \/ \E p \in ApiSlots : SeqRespond(p)

SpecSeq == Init /\ [][SeqNext]_vars

-----------------------------------------------------------------------------
(* One tick of the fetcher over a table of seven due rows, five polled        *)
(* before and two never polled, while no processFeed gets through: the        *)
(* remote fails, or it answers and the prior-rate select throws               *)

\* a row polled an hour before t whose next fetch was due at t
DueRow(t) ==
    [ name |-> Some("n1"), lastFetched |-> DateOf(t - 3600000), nextFetchAt |-> DateOf(t),
      publishRatePerHour |-> Num(Rat(1, 1)) ]

BatchStore ==
    [u \in FeedUrls |->
        CASE u = "g" -> DueRow(-4000)
          [] u = "h" -> DueRow(-3000)
          [] u = "i" -> DueRow(-2000)
          [] u = "j" -> DueRow(-1000)
          [] u = "f" -> PolledRow
          [] OTHER -> FreshRow]

\* the fetcher has just started over the feed table fs
StartedOver(fs) ==
    /\ EstIdle
    /\ now = 0
    /\ feeds = fs
    /\ items = NoRows
    /\ cache = {}
    /\ inv = [p \in Slots |-> Idle]
    /\ sched = [pc |-> "tick", due |-> <<>>, i |-> 0, wakeAt |-> 0]
    /\ spent = 0
    /\ prev = NoPrev
    /\ polled = NoPolls

BatchInit == StartedOver(BatchStore)

BatchNext ==
    \/ \E p \in SchedSlots : FetchOk(p) \/ FetchFail(p) \/ ReadThrows(p)
    \/ Tick \/ TickThrows \/ BatchSettled \/ Wake \/ WakeThrows

SpecBatch == BatchInit /\ [][BatchNext]_vars

-----------------------------------------------------------------------------
(* One tick of the fetcher over a table in which "a" and its final URL "f"    *)
(* are due together: two processFeed activations for one feed row overlap     *)

AliasStore == [u \in RequestUrls |-> IF u = "a" THEN FreshRow ELSE PolledRow]

AliasInit == StartedOver(AliasStore)

AliasNext ==
    \/ \E p \in SchedSlots : ProcessStep(p)
    \/ Tick \/ TickThrows \/ BatchSettled \/ Wake \/ WakeThrows

SpecAlias == AliasInit /\ [][AliasNext]_vars

-----------------------------------------------------------------------------
(* One client of POST /feeds over an empty table, the fetcher not running:    *)
(* the client posts a URL and, once answered, posts a URL again, the same or  *)
(* the other one; "a" redirects to "f"                                        *)

\* POST /feeds?url=u
RedirPost(u) ==
    /\ prev.k \in {"none", "first"}
    /\ \E p \in ApiSlots :
          /\ inv[p].pc = "idle"
          /\ inv' = [inv EXCEPT ![p] = Started(u, "api")]
    /\ UNCHANGED <<estVars, now, feeds, items, cache, sched, spent, prev, polled>>

RedirInit == StartedOver(NoRows)

RedirNext ==
    \/ \E u \in RequestUrls : RedirPost(u)
    \/ \E p \in ApiSlots : ProcessStep(p)
    \/ \E p \in ApiSlots : SeqRespond(p)

SpecRedirect == RedirInit /\ [][RedirNext]_vars

-----------------------------------------------------------------------------
(* One client of POST /feeds and DELETE /feeds over an empty table, the       *)
(* fetcher not running: two feeds, "f" (also reached as "a") and "g", whose   *)
(* documents carry items with the same URLs                                   *)

ShareUrls == {"a", "f", "g"}

ShareNext ==
    \/ \E u \in ShareUrls : RedirPost(u)
    \/ \E p \in ApiSlots : ProcessStep(p)
    \/ \E p \in ApiSlots : SeqRespond(p)
    \/ \E u \in ShareUrls : ApiDelete(u)

SpecShare == RedirInit /\ [][ShareNext]_vars

-----------------------------------------------------------------------------
(* The client that posts one URL twice, over an empty table: the first        *)
(* processFeed finds no row and so no prior rate                              *)

SpecRepeat == RedirInit /\ [][SeqNext]_vars

-----------------------------------------------------------------------------
(* The fetcher when every store call returns: no action in which a query      *)
(* throws; the clock moves while the scheduler sleeps; every awaited call     *)
(* settles and the loop of run() is scheduled                                 *)

\* a step of processFeed other than the answer of the prior-rate select
LiveStep(p) ==
    \/ FetchOk(p) \/ FetchFail(p)
    \/ Upsert(p)
    \/ ImageOk(p) \/ ImageNull(p)
    \/ InsertItem(p)

\* Bun.sleep(sleepMs) is running and time passes
Elapse ==
    /\ sched.pc = "sleep"
    /\ Advance

\* a step of the fetcher process: of run() or of a processFeed it awaits
FetcherStep ==
    \/ \E p \in SchedSlots : LiveStep(p)
    \/ Tick \/ BatchSettled \/ Wake \/ SleepDone
    \/ Elapse

\* the fetcher awaits the answer of a prior-rate select
ReadPending == \E p \in SchedSlots : inv[p].pc = "read"

\* the fetcher, and DELETE /feeds requests that remove rows under it
LiveNext ==
    \/ FetcherStep
    \/ \E p \in SchedSlots : ReadRate(p)
    \/ \E u \in RequestUrls : ApiDelete(u)

\* the fetcher is not starved: a step it can take is taken. The second
\* conjunct is WF_vars(\E p \in SchedSlots : ReadRate(p)) with the action's
\* ENABLED written as the state predicate it equals
Fairness ==
    /\ WF_vars(FetcherStep)
    /\ ([]<>(~ReadPending) \/ []<><<\E p \in SchedSlots : ReadRate(p)>>_vars)

LiveSpec == Init /\ [][LiveNext]_vars /\ Fairness

-----------------------------------------------------------------------------
(* The estimator on bounded inputs: two calls with the same prior and now *)

EstMaxLen == 2

EstEntries == {DateOf(0), DateOf(1500007), DateOf(1500008), NullDate, InvalidDate}

\* T, T+1h, T+2h; a burst; a sparse pair; undefined entries; lists longer
\* than SAMPLE_SIZE, sorted and not
EstLists ==
    { <<DateOf(0), DateOf(3600000), DateOf(7200000)>>,
      <<DateOf(7200000), DateOf(0), DateOf(3600000)>>,
      <<DateOf(0), DateOf(60000)>>,
      <<DateOf(0), DateOf(360000000)>>,
      <<UndefDate, DateOf(3600000)>>,
      <<DateOf(0), NullDate, DateOf(3600000), InvalidDate, DateOf(7200000), UndefDate>>,
      <<DateOf(0)>> \o Rep(DateOf(3600000), SAMPLE_SIZE),
      <<DateOf(0)>> \o Rep(DateOf(3600000), SAMPLE_SIZE - 1),
      Rep(DateOf(3600000), SAMPLE_SIZE) \o <<DateOf(0)>>,
      <<DateOf(0), DateOf(60000)>> \o Rep(DateOf(3600000), SAMPLE_SIZE - 1) }

EstInputs == SeqsUpTo(EstEntries, EstMaxLen) \cup EstLists

EstPriors ==
    { NullRate, UndefRate, Num(Rat(1, 1)), Num(Rat(20, 1)), Num(Rat(1, 100)),
      Num(Zero), Num(Rat(-1, 1)) }

EstNows == {0, 1700000000}

EstInit ==
    /\ SysIdle
    /\ ImgIdle
    /\ estTs \in EstInputs
    /\ estPrior \in EstPriors
    /\ estNow \in EstNows
    /\ estTs2 = <<>>
    /\ estOut = NoOut
    /\ estOut2 = NoOut

EstCall ==
    /\ estOut.k = "none"
    /\ estOut' = computeNextFetch(estTs, estPrior, estNow)
    /\ UNCHANGED <<estTs, estTs2, estPrior, estNow, estOut2, imgVars, sysVars>>

EstCallAgain ==
    /\ estOut.k = "res"
    /\ estOut2.k = "none"
    /\ \E ts \in EstInputs :
          /\ estTs2' = ts
          /\ estOut2' = computeNextFetch(ts, estPrior, estNow)
    /\ UNCHANGED <<estTs, estPrior, estNow, estOut, imgVars, sysVars>>

EstNext == EstCall \/ EstCallAgain

SpecEst == EstInit /\ [][EstNext]_vars


-----------------------------------------------------------------------------
(* bestImage as a function: one call on a list of candidates *)

ImgMaxLen == 3

\* the widths and heights an attribute can parse to
ImgDims == {-1, 0, 1, 2}

ImgUrls == <<"a", "b", "c", "d", "e">>

\* the lists of m candidates in order of discovery, the i-th with the i-th URL
ImgLists(m) ==
    {[i \in 1..m |-> Candidate(ImgUrls[i], d[i][1], d[i][2])] :
        d \in [1..m -> ImgDims \X ImgDims]}

\* lists with the dimensions real feeds declare
ImgSized ==
    { <<Candidate("a", 100, 100), Candidate("b", 200, 0), Candidate("c", 50, 300)>>,
      <<Candidate("a", 100, 100), Candidate("b", 200, 0), Candidate("c", 50, 100)>> }

ImgInit ==
    /\ SysIdle
    /\ estTs = <<>> /\ estTs2 = <<>> /\ estPrior = NullRate /\ estNow = 0
    /\ estOut = NoOut /\ estOut2 = NoOut
    /\ \/ \E m \in 0..ImgMaxLen : imgCandidates \in ImgLists(m)
       \/ imgCandidates \in ImgSized
    /\ imgOut = [k |-> "none", v |-> None]

ImgCall ==
    /\ imgOut.k = "none"
    /\ imgOut' = [k |-> "res", v |-> bestImage(imgCandidates)]
    /\ UNCHANGED <<estTs, estTs2, estPrior, estNow, estOut, estOut2, imgCandidates, sysVars>>

ImgNext == ImgCall

SpecImg == ImgInit /\ [][ImgNext]_vars

-----------------------------------------------------------------------------
(* Properties of the estimator (checked under SpecEst) *)

\* the positions of the valid timestamps of a list
EstValid(ts) == {i \in 1..Len(ts) : ts[i].k = "date"}

\* fewer than 2 valid timestamps, or the SAMPLE_SIZE most recent ones are all
\* the same instant
EstInsufficient(ts) ==
    \/ Cardinality(EstValid(ts)) < 2
    \/ LET newest == CHOOSE i \in EstValid(ts) : \A j \in EstValid(ts) : ts[j].v <= ts[i].v
           same == {i \in EstValid(ts) : ts[i].v = ts[newest].v}
       IN  \/ Cardinality(same) >= SAMPLE_SIZE
           \/ Cardinality(same) = Cardinality(EstValid(ts))

\* the observed rate of a list with a positive gap: the number of positive
\* gaps between the SAMPLE_SIZE most recent valid instants over their span
EstObserved(ts) ==
    LET all == SortAsc([i \in 1..Cardinality(EstValid(ts)) |->
                          SelectSeq(ts, LAMBDA d : d.k = "date")[i].v])
        s == SliceLast(all, SAMPLE_SIZE)
        steps == {i \in 1..(Len(s) - 1) : s[i] < s[i + 1]}
    IN  Rat(Cardinality(steps) * MS_PER_HOUR, s[Len(s)] - s[1])
EstHours(ts) == pollIntervalHoursOf(smoothedRateOf(EstObserved(ts), estPrior))
EstValidPrior == estPrior.k # "num" \/ RatPos(estPrior.v)
EstOffBound(h) == h # MIN_INTERVAL_HOURS /\ h # MAX_INTERVAL_HOURS

\* C5: for every input (any list of dates, nulls and invalid dates, any prior
\* rate, also zero or negative, or null) the returned nextFetchAt minus the
\* `now` read by the call lies in [0.25 h, 24 h].
C5_Clamping ==
    /\ estOut.k = "res" =>
          /\ 4 * (estOut.nextFetchAt - estNow) >= MS_PER_HOUR
          /\ estOut.nextFetchAt - estNow <= 24 * MS_PER_HOUR
    /\ estOut2.k = "res" =>
          /\ 4 * (estOut2.nextFetchAt - estNow) >= MS_PER_HOUR
          /\ estOut2.nextFetchAt - estNow <= 24 * MS_PER_HOUR

\* a call on a sparse feed (two items 100 h apart, no prior) whose interval
\* the upper clamp cut to 24 h
C5_Witness ==
    /\ estOut.k = "res"
    /\ estTs = <<DateOf(0), DateOf(360000000)>>
    /\ estPrior.k = "null"
    /\ estOut.nextFetchAt - estNow = 24 * MS_PER_HOUR

\* C6: with fewer than 2 valid timestamps, or with a last-20 sample whose
\* timestamps are all equal, the interval is exactly DEFAULT_INTERVAL_HOURS
\* (1 h) and the returned rate is the prior rate (null for null or undefined).
C6_InsufficientData ==
    (estOut.k = "res" /\ EstInsufficient(estTs)) =>
        /\ estOut.nextFetchAt - estNow = MS_PER_HOUR
        /\ estOut.newRatePerHour = (IF estPrior.k = "num" THEN estPrior ELSE NullRate)

\* a call on 21 valid timestamps whose 20 most recent are equal (the older
\* one lies outside the sample), with a prior rate
C6_Witness ==
    /\ estOut.k = "res"
    /\ Len(estTs) > SAMPLE_SIZE
    /\ Cardinality(EstValid(estTs)) > SAMPLE_SIZE
    /\ EstInsufficient(estTs)
    /\ estPrior.k = "num"

EstComparable ==
    /\ estOut.k = "res" /\ estOut2.k = "res"
    /\ ~EstInsufficient(estTs) /\ ~EstInsufficient(estTs2)
    /\ EstValidPrior
    /\ RatLt(EstObserved(estTs2), EstObserved(estTs))

\* C7 as stated: the strictly larger observed rate gives a strictly smaller
\* nextFetchAt - now whenever neither interval is at a clamp bound, and never
\* a larger one.
C7_AsStated ==
    EstComparable =>
        /\ estOut.nextFetchAt <= estOut2.nextFetchAt
        /\ (/\ estOut.nextFetchAt - estNow \notin {MS_PER_HOUR \div 4, 24 * MS_PER_HOUR}
            /\ estOut2.nextFetchAt - estNow \notin {MS_PER_HOUR \div 4, 24 * MS_PER_HOUR})
           => estOut.nextFetchAt < estOut2.nextFetchAt

\* C7 (amended): for two sequences with a positive gap each and the same prior
\* (null or strictly positive), the strictly larger observed rate gives a
\* strictly smaller poll interval in hours, before addHours cuts it to whole
\* milliseconds, whenever neither interval is at a clamp bound; nextFetchAt -
\* now, the interval cut to whole milliseconds, is never larger.
C7_Monotone ==
    EstComparable =>
        /\ estOut.nextFetchAt <= estOut2.nextFetchAt
        /\ RatLe(EstHours(estTs), EstHours(estTs2))
        /\ (EstOffBound(EstHours(estTs)) /\ EstOffBound(EstHours(estTs2)))
           => RatLt(EstHours(estTs), EstHours(estTs2))

\* two calls with different observed rates, both off the clamp bounds, whose
\* intervals differ by less than a millisecond: the same nextFetchAt
C7_Witness ==
    /\ EstComparable
    /\ EstOffBound(EstHours(estTs)) /\ EstOffBound(EstHours(estTs2))
    /\ RatLt(EstHours(estTs), EstHours(estTs2))
    /\ estOut.nextFetchAt = estOut2.nextFetchAt


-----------------------------------------------------------------------------
(* Properties of the fetcher (checked under LiveSpec) *)

Due(u) == u \in DOMAIN feeds /\ IsDue(feeds[u], now)

\* the scheduler's tick has called processFeed(u, db)
Passed(u) == \E p \in SchedSlots : inv[p].pc # "idle" /\ inv[p].url = u

\* one more sleep of TICK_MS ends before the clock stops being advanced
InHorizon == now + TICK_MS + MaxEvents * MaxSkew <= MaxNow

\* C1: when every fetch and store call returns and the loop is scheduled
\* fairly, a feed row whose nextFetchAt is null or <= now is passed to
\* processFeed by the scheduler (unless it stops being due first): the
\* due-feed query of a tick returns every row that is due at that instant,
\* the sleep between two ticks is at most TICK_MS, and the next tick comes.
C1_Liveness ==
    /\ \A u \in RequestUrls : (Due(u) /\ InHorizon) ~> (Passed(u) \/ ~Due(u))
    /\ [][ /\ (sched.pc = "tick" /\ sched'.pc = "await") =>
                 \A u \in DOMAIN feeds : IsDue(feeds[u], now) => Passed(u)'
           /\ (sched.pc = "tick" /\ sched'.pc = "wake") =>
                 \A u \in DOMAIN feeds : ~IsDue(feeds[u], now)
           /\ (sched.pc = "wake" /\ sched'.pc = "sleep") =>
                 sched'.wakeAt <= now + TICK_MS ]_vars

\* a row that is still due after a sleep is in the hands of processFeed again
C1_Witness ==
    \E u \in RequestUrls : Due(u) /\ Passed(u) /\ now >= TICK_MS /\ InHorizon

-----------------------------------------------------------------------------
(* Properties of the system (checked under Spec) *)

\* C2: the loop of run() never terminates, whichever store operation of an
\* iteration fails: the scheduler is never in the state in which run() has
\* rejected.
C2_AsStated == sched.pc # "dead"

\* C3: when fetchAndParse fails, processFeed returns null and the step
\* writes nothing: the feed table and the item table are unchanged, and each
\* row that was due is still due.
C3_FetchFailure ==
    [][ \A p \in Slots :
          (inv[p].pc = "fetch" /\ inv'[p].pc = "done") =>
              /\ inv'[p].result = "null"
              /\ feeds' = feeds
              /\ items' = items
              /\ \A u \in DOMAIN feeds : IsDue(feeds[u], now) => Due(u)' ]_vars

\* the scheduler's processFeed returned null for a row that is due
C3_Witness ==
    \E p \in SchedSlots :
        /\ inv[p].pc = "done"
        /\ inv[p].result = "null"
        /\ Due(inv[p].url)

\* the second run on the response of the first has returned
SecondDone(p) ==
    /\ prev.k = "first"
    /\ prev.result = "ok"
    /\ inv[p].pc = "done"
    /\ inv[p].result = "ok"
    /\ inv[p].url = prev.url
    /\ inv[p].doc = prev.doc

C8_AsStated ==
    \A u \in DOMAIN feeds :
        feeds[u].lastFetched.k = "date" =>
            /\ feeds[u].nextFetchAt.k = "date"
            /\ RatLe(MIN_INTERVAL_HOURS,
                     Rat(feeds[u].nextFetchAt.v - feeds[u].lastFetched.v, MS_PER_HOUR))
            /\ RatLe(Rat(feeds[u].nextFetchAt.v - feeds[u].lastFetched.v, MS_PER_HOUR),
                     MAX_INTERVAL_HOURS)

\* C9: every feed row's publishRatePerHour is null or strictly positive.
C9_RatePositive ==
    \A u \in DOMAIN feeds :
        \/ feeds[u].publishRatePerHour.k = "null"
        \/ /\ feeds[u].publishRatePerHour.k = "num"
           /\ RatPos(feeds[u].publishRatePerHour.v)

\* a row processFeed wrote over a row that had a rate, with a smoothed rate
C9_Witness ==
    \E u \in DOMAIN feeds :
        /\ feeds[u].lastFetched.k = "date"
        /\ feeds[u].lastFetched.v >= 0
        /\ feeds[u].publishRatePerHour.k = "num"
        /\ feeds[u].publishRatePerHour.v \notin {Rat(1, 1), Rat(4, 1)}

\* C10: every item row's feedUrl is the key of a feed row, and a processFeed
\* that is at an image download or an item insert has upserted its feed row.
C10_Referential ==
    /\ \A x \in DOMAIN items : items[x].feedUrl \in DOMAIN feeds
    /\ \A p \in Slots : inv[p].pc \in {"image", "insert"} => inv[p].upserted

\* a processFeed whose feed row was deleted under it: its insert was refused
\* and it returned
C10_Witness ==
    \E p \in Slots :
        /\ inv[p].pc = "done"
        /\ inv[p].result = "ok"
        /\ inv[p].upserted
        /\ inv[p].threw
        /\ inv[p].finalUrl \notin DOMAIN feeds

\* C11 as the spec states it: the scheduler never passes one feed URL to
\* processFeed twice less than MIN_INTERVAL_HOURS (15 minutes) apart.
C11_AsStated ==
    \A u \in FeedUrls :
        polled[u].gap >= 0 =>
            RatLe(MIN_INTERVAL_HOURS, Rat(polled[u].gap, MS_PER_HOUR))

\* "a" redirects to "f": its poll succeeded and wrote the row keyed "f", the
\* row keyed "a" is as it was, and the scheduler polls "a" again a tick later
C11_AliasRepoll ==
    /\ "a" \in DOMAIN feeds
    /\ "f" \in DOMAIN feeds
    /\ feeds["f"].lastFetched.k = "date"
    /\ feeds["f"].lastFetched.v >= 0
    /\ spent = 1
    /\ \E p \in SchedSlots : inv[p].url = "a" /\ inv[p].pc = "fetch"
    /\ polled["a"].gap >= 0
    /\ polled["a"].gap <= TICK_MS

-----------------------------------------------------------------------------
(* Properties of overlapping activations (checked under SpecAlias) *)

\* what one processFeed on doc, run alone, leaves: the rate of the feed row
\* over the prior rate, and the item table over the table its
SerialRate(doc, prior) ==
    computeNextFetch([i \in 1..Len(doc.items) |-> OrNull(doc.items[i].published)],
                     prior, 0).newRatePerHour

RECURSIVE SerialItems(_, _, _)
SerialItems(its, doc, i) ==
    IF i > Len(doc.items) THEN its
    ELSE LET item == doc.items[i]
         IN  IF item.url = "" \/ item.url \in DOMAIN its
             THEN SerialItems(its, doc, i + 1)
             ELSE SerialItems([u \in DOMAIN its \cup {item.url} |->
                                  IF u = item.url
                                  THEN ItemRow(item, "f",
                                               IF item.image = "" THEN None ELSE Some(item.image))
                                  ELSE its[u]],
                              doc, i + 1)

\* the feed row keyed "f" and the item table are those of running first on
\* d1 and then on d2, from the tables of AliasStore
AsInSequence(d1, d2) ==
    /\ feeds["f"].publishRatePerHour
           = SerialRate(d2, SerialRate(d1, AliasStore["f"].publishRatePerHour))
    /\ feeds["f"].name = nullIfEmpty(d2.name)
    /\ items = SerialItems(SerialItems(NoRows, d1, 1), d2, 1)

\* both activations of the tick returned and nothing failed: the two
\* answers of the remote are the only events
BothReturned ==
    /\ inv[1].pc = "done" /\ inv[1].result = "ok" /\ ~inv[1].threw
    /\ inv[2].pc = "done" /\ inv[2].result = "ok" /\ ~inv[2].threw
    /\ spent = 2

\* C12 as the spec states it: when two activations for one final URL
\* overlap, the feed row (rate, metadata) and the item table they leave are
\* those of running the two one after the other in some order.
C12_AsStated ==
    BothReturned =>
        \/ AsInSequence(inv[1].doc, inv[2].doc)
        \/ AsInSequence(inv[2].doc, inv[1].doc)

\* C13 as the spec states it: a feed row comes into the table only by the
\* upsert of a processFeed that POST /feeds called, never by one the scheduler
\* dispatched, and a feed row leaves the table only by DELETE /feeds.
C13_AsStated ==
    [][ /\ \A u \in DOMAIN feeds' \ DOMAIN feeds :
              \E p \in ApiSlots :
                  inv[p].pc = "upsert" /\ inv[p].finalUrl = u /\ inv'[p] # inv[p]
        /\ DOMAIN feeds \ DOMAIN feeds' # {} => inv' = inv /\ spent' = spent + 1 ]_vars

\* a processFeed the scheduler dispatched for the row "f" is about to upsert
\* while DELETE /feeds has removed that row
C13_DeletedUnderTick ==
    \E p \in SchedSlots :
        /\ inv[p].by = "sched"
        /\ inv[p].url = "f"
        /\ inv[p].pc = "upsert"
        /\ "f" \notin DOMAIN feeds

\* C14: when "a" and "f" both resolve to "f", after any sequence of
\* processFeed("a") and processFeed("f") no feed row is keyed "a", every item
\* row has feedUrl = "f", and when a processFeed has returned { inserted,
\* finalUrl } the only feed row is the one keyed "f" and its name is the
\* name that invocation wrote.
C14_RedirectCollapse ==
    /\ "a" \notin DOMAIN feeds
    /\ \A x \in DOMAIN items : items[x].feedUrl = "f"
    /\ \A p \in ApiSlots :
          (inv[p].pc = "done" /\ inv[p].result = "ok") =>
              /\ DOMAIN feeds = {"f"}
              /\ inv[p].finalUrl = "f"
              /\ feeds["f"].name = nullIfEmpty(inv[p].doc.name)

\* processFeed of one URL returned after a processFeed of the other URL
\* that wrote another name, and items are stored
C14_Witness ==
    \E p \in ApiSlots :
        /\ prev.k = "first"
        /\ prev.result = "ok"
        /\ inv[p].pc = "done"
        /\ inv[p].result = "ok"
        /\ inv[p].url # prev.url
        /\ nullIfEmpty(inv[p].doc.name) # nullIfEmpty(prev.doc.name)
        /\ feeds["f"].name = nullIfEmpty(inv[p].doc.name)
        /\ DOMAIN items # {}

\* C15: a step leaves every item row as it is, column by column, or removes
\* it together with the feed row its feedUrl names (DELETE /feeds, cascade);
\* no step of processFeed changes or removes an item row.
C15_InsertOrNothing ==
    [][ \A x \in DOMAIN items :
           \/ x \in DOMAIN items' /\ items'[x] = items[x]
           \/ /\ x \notin DOMAIN items'
              /\ items[x].feedUrl \in DOMAIN feeds \ DOMAIN feeds'
              /\ inv' = inv ]_vars

\* a processFeed whose every insert ran has returned, and an item of its
\* document is stored as another feed's row with another title
C15_Witness ==
    \E p \in ApiSlots :
        /\ inv[p].pc = "done"
        /\ inv[p].result = "ok"
        /\ ~inv[p].threw
        /\ \E j \in 1..Len(inv[p].doc.items) :
              LET item == inv[p].doc.items[j]
              IN  /\ item.url \in DOMAIN items
                  /\ items[item.url].feedUrl # inv[p].finalUrl
                  /\ items[item.url].title # nullIfEmpty(item.title)

\* C16 as the spec states it: the inserted value processFeed returns is the
\* number of item rows the invocation added; for the first processFeed over
\* an empty item table that is the number of item rows in the table.
C16_AsStated ==
    \A p \in ApiSlots :
        (prev.k = "none" /\ inv[p].pc = "done" /\ inv[p].result = "ok") =>
            inv[p].inserted = Cardinality(DOMAIN items)

\* the first processFeed over the empty table returned after it stored the
\* two items of its document
C16_FreshFeed ==
    \E p \in ApiSlots :
        /\ prev.k = "none"
        /\ inv[p].pc = "done"
        /\ inv[p].result = "ok"
        /\ ~inv[p].threw
        /\ Cardinality(DOMAIN items) = 2

\* the step hands feeds to processFeed: a batch is dispatched
Dispatching ==
    \E p \in SchedSlots : inv'[p].pc = "fetch" /\ inv'[p] # inv[p]

\* C17: a batch is dispatched only when no processFeed the scheduler
\* dispatched is in flight, it starts at most CONCURRENCY of them (the feeds
\* left of the due list, 5 at most), and a tick is over only when none is in
\* flight, so that neither batches nor ticks overlap.
C17_BoundedConcurrency ==
    [][ /\ Dispatching =>
              /\ \A p \in SchedSlots : ~InFlight(p)
              /\ sched'.pc = "await"
              /\ Cardinality({p \in SchedSlots : inv'[p].pc = "fetch"})
                    = (IF Len(sched'.due) - sched'.i < CONCURRENCY
                       THEN Len(sched'.due) - sched'.i ELSE CONCURRENCY)
        /\ sched'.pc # "await" =>
              \A p \in SchedSlots : inv'[p].pc \in {"idle", "done"} ]_vars

\* the second batch of a tick is in flight: one of its activations has its
\* feed, another still waits for the remote
C17_Witness ==
    /\ sched.pc = "await"
    /\ sched.i = CONCURRENCY
    /\ inv[1].pc = "read"
    /\ inv[2].pc = "fetch"

\* C18: the step in which a processFeed the scheduler dispatched returns
\* null or rejects changes neither the scheduler's position nor any other
\* activation; a dispatch hands the next CONCURRENCY feeds of the due list,
\* in their order, to processFeed; and the tick returns only when the due
\* list is used up and every activation has settled: every due feed of the
\* tick is dispatched and none is cut short.
C18_FailureIsolation ==
    [][ /\ \A p \in SchedSlots :
              (inv[p].pc # "done" /\ inv'[p].result \in {"null", "rejected"}) =>
                  /\ sched' = sched
                  /\ \A q \in SchedSlots \ {p} : inv'[q] = inv[q]
        /\ Dispatching =>
              /\ sched'.i = (IF sched.pc = "tick" THEN 0 ELSE sched.i + CONCURRENCY)
              /\ sched.pc = "await" => sched'.due = sched.due
              /\ \A p \in SchedSlots :
                    sched'.i + p <= Len(sched'.due) =>
                        inv'[p] = Started(sched'.due[sched'.i + p], "sched")
        /\ (sched.pc = "await" /\ sched'.pc # "await") =>
              /\ sched.i + CONCURRENCY >= Len(sched.due)
              /\ \A p \in SchedSlots : ~InFlight(p) ]_vars

\* the second batch has settled after an activation of the first batch
\* rejected: the two events of the run, a parsed feed and the throw of its
\* select, are not those of the second batch, whose activations returned null
C18_Witness ==
    /\ sched.pc = "await"
    /\ sched.i = CONCURRENCY
    /\ spent = 2
    /\ inv[1].pc = "done" /\ inv[1].result = "null"
    /\ inv[2].pc = "done" /\ inv[2].result = "null"

\* the batch of the tick the k-th feed of the due list is dispatched in
BatchOf(k) == (k - 1) \div CONCURRENCY

\* C19 as the spec states it: in the due list of a tick no feed with a
\* non-null nextFetchAt is in an earlier batch than a never-polled feed
\* (nextFetchAt null), and among the feeds with a nextFetchAt no later one is
\* in an earlier batch than an earlier one.
C19_AsStated ==
    sched.pc = "await" =>
        \A k, l \in 1..Len(sched.due) :
            LET a == feeds[sched.due[k]].nextFetchAt
                b == feeds[sched.due[l]].nextFetchAt
            IN  /\ (a.k # "null" /\ b.k = "null") => BatchOf(k) >= BatchOf(l)
                /\ (a.k # "null" /\ b.k # "null" /\ a.v > b.v) => BatchOf(k) >= BatchOf(l)

\* the second batch of the tick is the never-polled feeds; the five feeds
\* with a nextFetchAt went first
C19_NullsLast ==
    /\ sched.pc = "await"
    /\ sched.i = CONCURRENCY
    /\ \A p \in SchedSlots :
          inv[p].pc # "idle" => feeds[inv[p].url].nextFetchAt.k = "null"
    /\ inv[1].pc = "fetch"
    /\ inv[2].pc = "fetch"

\* the rows whose nextFetchAt is later than the instant tq
FutureRows(tq) ==
    {u \in DOMAIN feeds : feeds[u].nextFetchAt.k = "date" /\ feeds[u].nextFetchAt.v > tq}

\* C20: the sleep run() asks for after a tick, sleepMs = the value of
\* getNextWakeMs, is within [0, TICK_MS]; with tq the instant the query read
\* as now(), at most MaxSkew before now, it is TICK_MS when no row has a
\* nextFetchAt later than tq, and otherwise the time from now to the earliest
\* such nextFetchAt, cut to TICK_MS from above and to 0 from below.
C20_WakeBound ==
    [][ (sched.pc = "wake" /\ sched'.pc = "sleep") =>
            LET sleepMs == sched'.wakeAt - now
            IN  /\ 0 <= sleepMs
                /\ sleepMs <= TICK_MS
                /\ \E tq \in (now - MaxSkew)..now :
                      IF FutureRows(tq) = {}
                      THEN sleepMs = TICK_MS
                      ELSE \E u \in FutureRows(tq) :
                             LET msUntil == feeds[u].nextFetchAt.v - now
                             IN  /\ \A w \in FutureRows(tq) :
                                       feeds[u].nextFetchAt.v <= feeds[w].nextFetchAt.v
                                 /\ sleepMs = (IF msUntil > TICK_MS THEN TICK_MS
                                               ELSE IF msUntil < 0 THEN 0 ELSE msUntil) ]_vars

\* the scheduler sleeps TICK_MS although the next fetch of every row is
\* further away than that
C20_Witness ==
    /\ sched.pc = "sleep"
    /\ sched.wakeAt - now = TICK_MS
    /\ FutureRows(now) # {}
    /\ \A u \in FutureRows(now) : feeds[u].nextFetchAt.v - now > TICK_MS

\* the time from lastFetched to nextFetchAt of the row keyed "f" in fs
Ahead(fs) == fs["f"].nextFetchAt.v - fs["f"].lastFetched.v

\* the second run left the rate the first run stored, and a nextFetchAt as
\* far from its own clock reading as the first run's was: lastFetched is read
\* up to MaxSkew ms after the clock reading nextFetchAt is counted from
SameSchedule ==
    /\ feeds["f"].publishRatePerHour = prev.feeds["f"].publishRatePerHour
    /\ \E s1, s2 \in 0..MaxSkew : Ahead(feeds) + s2 = Ahead(prev.feeds) + s1

StatedScore(img) ==
    IF img.width > 0 /\ img.height > 0
    THEN img.width * img.height
    ELSE IF img.width >= img.height THEN img.width ELSE img.height

\* the example of the spec, in order of discovery
ImgExample ==
    <<Candidate("a", 100, 100), Candidate("b", 200, 0), Candidate("c", 50, 300)>>

\* C22 as the spec states it: bestImage of an empty list is null; of a
\* non-empty list it is the URL of the first candidate, in order of
\* discovery, whose stated score no candidate exceeds; and of the example
\* list it is "a".
C22_AsStated ==
    imgOut.k = "res" =>
        /\ IF imgCandidates = <<>>
           THEN imgOut.v = None
           ELSE \E i \in 1..Len(imgCandidates) :
                   /\ imgOut.v = Some(imgCandidates[i].url)
                   /\ \A j \in 1..Len(imgCandidates) :
                         /\ StatedScore(imgCandidates[j]) <= StatedScore(imgCandidates[i])
                         /\ j < i => StatedScore(imgCandidates[j]) < StatedScore(imgCandidates[i])
        /\ imgCandidates = ImgExample => imgOut.v = Some("a")

\* two negative dimensions multiply to a positive area: "a" is returned
\* although its stated score, -1, is below the 0 of "b"
C22_NegativeArea ==
    /\ imgCandidates = <<Candidate("a", -1, -1), Candidate("b", -1, 0)>>
    /\ imgOut = [k |-> "res", v |-> Some("a")]

\* the rate and the interval, in hours, the spec gives for a list with a
\* positive gap: obs smoothed with the prior rate when there is one, and
\* LEAD_FACTOR / rate cut to [MIN_INTERVAL_HOURS, MAX_INTERVAL_HOURS]
RefRate(ts) ==
    IF estPrior.k = "num"
    THEN RatAdd(RatMul(Rat(3, 10), EstObserved(ts)), RatMul(Rat(7, 10), estPrior.v))
    ELSE EstObserved(ts)
RefHours(ts) ==
    LET h == RatMul(Rat(3, 5), RatInv(RefRate(ts)))
    IN  IF RatLt(h, Rat(1, 4)) THEN Rat(1, 4)
        ELSE IF RatLt(Rat(24, 1), h) THEN Rat(24, 1)
        ELSE h
RefResult(ts, out) ==
    (out.k = "res" /\ ~EstInsufficient(ts)) =>
        /\ out.newRatePerHour = Num(RefRate(ts))
        /\ \A h \in {RefHours(ts)} :
              out.nextFetchAt = estNow + MulDiv(h.n, MS_PER_HOUR, h.d).q

EstCount(ts, v) == Cardinality({i \in EstValid(ts) : ts[i].v = v})

\* two lists with the same valid instants, each as often: one is the other
\* permuted, with null, undefined or invalid entries added or removed
EstSameInstants(ts1, ts2) ==
    \A v \in {ts1[i].v : i \in EstValid(ts1)} \cup {ts2[i].v : i \in EstValid(ts2)} :
        EstCount(ts1, v) = EstCount(ts2, v)

\* C24: two calls of computeNextFetch with the same now and the same prior
\* rate, on lists that differ only in the order of their entries and in
\* null, undefined or invalid entries, return the same nextFetchAt and rate.
C24_OrderAndNoise ==
    (estOut.k = "res" /\ estOut2.k = "res" /\ EstSameInstants(estTs, estTs2)) =>
        estOut2 = estOut

\* T+2h, T, T+1h against T, null, T+1h, invalid, T+2h, undefined: the same
\* estimated rate
C24_Witness ==
    /\ estOut.k = "res" /\ estOut2.k = "res"
    /\ estTs = <<DateOf(7200000), DateOf(0), DateOf(3600000)>>
    /\ Len(estTs2) = 6
    /\ EstSameInstants(estTs, estTs2)
    /\ estPrior.k = "num"
    /\ estOut2.newRatePerHour.k = "num"
    /\ estOut2 = estOut

\* the step is an item insert of activation p that throws: the store failed,
\* or the row is new and its feed row is gone (foreign key)
InsertThrew(p) ==
    /\ inv[p].pc = "insert"
    /\ inv'[p] # inv[p]
    /\ \/ spent' # spent
       \/ /\ inv[p].doc.items[inv[p].idx].url \notin DOMAIN items
          /\ inv[p].finalUrl \notin DOMAIN feeds

\* C25: a step in which an item insert throws writes nothing (the feed row
\* upserted before is as it was), adds nothing to inserted, and takes
\* processFeed to the next parsed item that has a URL, in the order of the
\* feed, or, with none left, to its return of { inserted, finalUrl }.
C25_InsertFailure ==
    [][ \A p \in Slots :
          InsertThrew(p) =>
              LET its == inv[p].doc.items
                  rest == {j \in (inv[p].idx + 1)..Len(its) : its[j].url # ""}
              IN  /\ feeds' = feeds
                  /\ items' = items
                  /\ inv'[p].inserted = inv[p].inserted
                  /\ inv'[p].upserted
                  /\ IF rest = {}
                     THEN inv'[p].pc = "done" /\ inv'[p].result = "ok"
                     ELSE /\ inv'[p].pc \in {"image", "insert"}
                          /\ inv'[p].idx \in rest
                          /\ \A j \in rest : inv'[p].idx <= j ]_vars

\* processFeed returned { inserted, finalUrl } after the insert of its first
\* item threw: the feed row is there, and the item after it is stored
C25_Witness ==
    \E p \in Slots :
        /\ inv[p].pc = "done"
        /\ inv[p].result = "ok"
        /\ inv[p].threw
        /\ inv[p].doc.name = "n2"
        /\ inv[p].finalUrl \in DOMAIN feeds
        /\ feeds[inv[p].finalUrl].name = Some("n2")
        /\ "x" \notin DOMAIN items
        /\ "z" \in DOMAIN items

\* the step is the insert of an item of activation p whose image download
\* returned null, and the insert adds the row
InsertedWithoutImage(p) ==
    /\ inv[p].pc = "insert"
    /\ inv[p].doc.items[inv[p].idx].image # ""
    /\ inv[p].img = None
    /\ inv[p].doc.items[inv[p].idx].url \notin DOMAIN items
    /\ inv[p].doc.items[inv[p].idx].url \in DOMAIN items'

\* C26 as the spec states it: an item whose image download returned null is
\* inserted all the same, with a null image, and, its URL being new, is
\* counted in inserted.
C26_AsStated ==
    [][ \A p \in Slots :
          InsertedWithoutImage(p) =>
              /\ items'[inv[p].doc.items[inv[p].idx].url].image = None
              /\ inv'[p].inserted = inv[p].inserted + 1 ]_vars

\* the first processFeed over the empty tables returned after it stored an
\* item that names an image with a null image
C26_StoredWithoutImage ==
    \E p \in Slots :
        /\ prev.k = "none"
        /\ inv[p].pc = "done"
        /\ inv[p].result = "ok"
        /\ \E j \in 1..Len(inv[p].doc.items) :
              LET item == inv[p].doc.items[j]
              IN  /\ item.image # ""
                  /\ item.url \in DOMAIN items
                  /\ items[item.url].image = None

\* the step takes activation p to the item at position j of its feed, which
\* names an image: downloadImageAsBase64 is called for it
CallsDownload(p, j) ==
    /\ inv'[p].pc \in {"image", "insert"}
    /\ inv'[p].idx = j
    /\ inv[p].pc \in {"upsert", "insert"}
    /\ inv'[p] # inv[p]
    /\ inv[p].pc = "insert" => inv[p].idx # j
    /\ inv[p].doc.items[j].image # ""

\* C27: no step takes a URL out of the cache; a URL comes into it only by
\* the step in which its download built a data URI, never by one that
\* returned null; a call for a cached URL returns the cached value with no
\* download, and a call for a URL that is not cached downloads.
C27_ImageCache ==
    [][ /\ cache \subseteq cache'
        /\ \A url \in cache' \ cache :
              \E p \in Slots :
                  /\ inv[p].pc = "image"
                  /\ inv[p].doc.items[inv[p].idx].image = url
                  /\ inv'[p].img = Some(url)
        /\ \A p \in Slots : \A j \in 1..Len(inv[p].doc.items) :
              CallsDownload(p, j) =>
                  IF inv[p].doc.items[j].image \in cache
                  THEN inv'[p].pc = "insert" /\ inv'[p].img = Some(inv[p].doc.items[j].image)
                  ELSE inv'[p].pc = "image" ]_vars

\* a download is in flight for a URL that a concurrent call has cached in
\* the meantime
C27_Witness ==
    \E p, q \in SchedSlots :
        /\ p # q
        /\ inv[p].pc = "image"
        /\ inv[p].doc.items[inv[p].idx].image \in cache
        /\ inv[q].pc = "insert"
        /\ inv[q].img = Some(inv[p].doc.items[inv[p].idx].image)

\* C28 as the spec states it: when a processFeed the scheduler dispatched for
\* the row keyed u has returned { inserted, finalUrl }, the row keyed u has a
\* nextFetchAt later than now, so that the next tick does not select it.
C28_AsStated ==
    \A p \in SchedSlots :
        (inv[p].pc = "done" /\ inv[p].result = "ok" /\ inv[p].url \in DOMAIN feeds) =>
            /\ feeds[inv[p].url].nextFetchAt.k = "date"
            /\ feeds[inv[p].url].nextFetchAt.v > now

\* the processFeed dispatched for the row "a" returned with every insert
\* made; the row "f" it wrote is scheduled ahead while the row "a" is as due
\* as before
C28_AliasStillDue ==
    \E p \in SchedSlots :
        /\ inv[p].pc = "done"
        /\ inv[p].result = "ok"
        /\ ~inv[p].threw
        /\ inv[p].url = "a"
        /\ feeds["f"].nextFetchAt.v > now
        /\ feeds["f"].lastFetched.v >= 0
        /\ IsDue(feeds["a"], now)

=============================================================================
